---- MODULE Spec2Model ----
(***************************************************************************)
(* Model of the tick-driven transit simulation of rochias_four             *)
(* (FourApp in app.py) and of the feed-gap projection (flow.py).           *)
(*                                                                         *)
(* Time is counted in integer model units.  time.perf_counter() is the     *)
(* variable  now ; a handler runs at one instant.  Durations, the tick     *)
(* period and the "exit" window are expressed in the same units.  Values   *)
(* the code keeps "in minutes" (seconds / 60.0) are kept in model units:   *)
(* the division by 60 is a change of unit applied uniformly to every       *)
(* quantity compared with them.                                            *)
(***************************************************************************)
EXTENDS Integers, Sequences, FiniteSets, TLC

\* ------------------------------------------------------------------ bounds
TickUnits == 2      \* model time units in one TICK_SECONDS period
ExitUnits == 3      \* model time units in the 5*60 s "exit" window
MaxTime   == 6      \* the wall clock runs from 0 to MaxTime
MaxEvents == 1      \* feed interruptions recorded in one run
ToastCap  == 2      \* emission counters saturate here
HMaxT     == 24     \* gap projection: simulation time runs from 0 to HMaxT
HMaxEvents == 1     \* gap projection: feed interruptions recorded
RampUnits == 2      \* timeline: model minutes in one ramp duration
TLMaxT    == 5      \* timeline: event and query times run from 0 to TLMaxT
TLMaxEvents == 3    \* timeline: entries of the event list
MaxTotal  == 2      \* calculations: totals run from 0 to MaxTotal
MaxH0     == 1      \* calculations: entry thicknesses run from -1 to MaxH0

\* ------------------------------------------------------- program constants
TICK_SECONDS == TickUnits
EXIT_WINDOW  == ExitUnits
DUR_FLOOR    == 1   \* max(1e-6, .): the smallest positive duration
HOLE_EPS     == 0   \* 1e-6 of flow.py: positions are whole numbers here
NoTimer == -1       \* _after_id = None
Unset   == -1       \* GapEvent.end_min = None

Max(a, b) == IF a >= b THEN a ELSE b
Min(a, b) == IF a <= b THEN a ELSE b

Sum3(d) == d[1] + d[2] + d[3]
\* sum(d[:k]) for k in 0..3
SumPrefix(d, k) == (IF k >= 1 THEN d[1] ELSE 0) + (IF k >= 2 THEN d[2] ELSE 0)
                   + (IF k >= 3 THEN d[3] ELSE 0)
\* sum(d[j] for j in range(i + 1, 3)) for the 0-based stage i
SumAfter(d, i) == (IF i < 1 THEN d[2] ELSE 0) + (IF i < 2 THEN d[3] ELSE 0)

\* --------------------------------------------------------------- the inputs
\* What the three entry fields hold when a handler reads them: text that
\* parse_hz rejects, a frequency <= 0, frequencies whose predicted total is
\* <= 0, or frequencies with a usable plan.
InvalidEntries == {"empty", "nonnumeric", "nonpositive"}
PlanEntries == {"P1", "P2"}
Entries == InvalidEntries \cup {"badtotal"} \cup PlanEntries

\* The result of the calculation for a usable entry: the split of the total
\* over the three belts (parts_reparties), already in model time units.  P1
\* is a plan no longer than the exit window, P2 a longer one.
PlanOf(e) ==
    IF e = "P1" THEN [parts_reparties |-> <<1, 1, 1>>]
    ELSE [parts_reparties |-> <<2, 1, 1>>]

\* last_calc = None
NoCalc == [parts_reparties |-> <<0, 0, 0>>]

\* self.parts_mode keeps its construction value: the diagnostic display mode
\* ("independant") is not selected in this model.
parts_mode == "repartition"

\* The run's notifications so far: how often each kind was shown.
NoToasts == [belt2 |-> 0, belt3 |-> 0, exit |-> 0]

VARIABLES
    app,        \* the fields of FourApp (a record, see InitApp)
    now,        \* time.perf_counter()
    last_op,    \* history: the handler that ran last
    active,     \* history: non-paused time elapsed since the last start
    h_cfg,      \* gap projection: belt durations, frequencies, distances
    h_t,        \* gap projection: the current simulation time (minutes)
    h_events,   \* gap projection: the GapEvent list
    h_holes,    \* gap projection: the result of holes_for_all_belts
    tl,         \* the fields of a FeedTimeline (a record, see tl_reset)
    show_holes, \* whether the hole overlay of the bars is followed (fixed)
    c_in,       \* calculation: the inputs (frequencies, total, anchors, h0)
    c_op,       \* calculation: the function applied last
    c_out,      \* calculation: what it returned
    cal,        \* calibration: anchors and speeds in memory and on disk
    cal_op      \* calibration: the operation that ran last

hvars == <<h_cfg, h_t, h_events, h_holes>>
mainvars == <<app, now, last_op, active>>
tvars == <<tl>>
ovars == <<show_holes>>
cvars == <<c_in, c_op, c_out>>
kvars == <<cal, cal_op>>
pvars == <<tvars, ovars, cvars, kvars>>
vars == <<mainvars, hvars, pvars>>

InitApp == [
    animating |-> FALSE,
    paused |-> FALSE,
    seg_idx |-> 0,
    seg_start |-> 0,
    pause_t0 |-> 0,
    seg_durations |-> <<0, 0, 0>>,
    total_duration |-> 0,
    notified_stage1 |-> FALSE,
    notified_stage2 |-> FALSE,
    notified_exit |-> FALSE,
    feed_events |-> <<>>,
    feed_on |-> TRUE,
    after_id |-> NoTimer,
    timers |-> {},
    err_box |-> "",
    last_calc |-> NoCalc,
    toasts |-> NoToasts,
    holes_min |-> Unset
  ]

NoCfg == [t |-> <<0, 0, 0>>, f |-> <<0, 0, 0>>, D |-> <<0, 0, 0>>]

\* The FeedTimeline and the calculation inputs stay as they are while the
\* clock or the gap projection is exercised.
TLNone == [alpha0 |-> 0, initial_time |-> 0, events |-> <<>>]

NoInput == [f |-> <<0, 0, 0>>, total |-> 0, K |-> <<0, 0, 0>>, h0 |-> 0]

CIdle ==
    /\ c_in = NoInput
    /\ c_op = "none"
    /\ c_out = <<>>

\* The calibration stays as the modules define it at import while the rest is
\* exercised: default anchors, no speed set, nothing read or written.
\* Anchors are tuples <<K1, K2, K3, B>> in ten-thousandths of a minute.Hz (of
\* a minute for B); the empty tuple is None, a missing file or an empty label.
DEFAULT_ANCHOR_CAL == <<47250000, 51750000, 158625000, 0 - 2292500>>

NoCal == [cur |-> DEFAULT_ANCHOR_CAL, disk |-> <<>>, speed_cur |-> <<>>,
          speed_disk |-> <<>>, preview |-> <<>>, open |-> FALSE,
          applied |-> <<>>]

KIdle ==
    /\ cal = NoCal
    /\ cal_op = "none"

PIdle ==
    /\ tl = TLNone
    /\ show_holes = FALSE
    /\ CIdle
    /\ KIdle

HIdle ==
    /\ h_cfg = NoCfg
    /\ h_t = 0
    /\ h_events = <<>>
    /\ h_holes = <<<<>>, <<>>, <<>>>>

Init ==
    /\ app = InitApp
    /\ now = 0
    /\ last_op = "init"
    /\ active = 0
    /\ HIdle
    /\ PIdle

\* ------------------------------------------------------------- Tk helpers
cancel_after_kept(s) == s

schedule_tick_dropped(s, t) == s

\* _cancel_after: after_cancel of the id held, then _after_id = None.
cancel_after(s) ==
    IF s.after_id # NoTimer
    THEN [s EXCEPT !.timers = @ \ {s.after_id}, !.after_id = NoTimer]
    ELSE s

\* _schedule_tick: one callback TICK_SECONDS from now, replacing the one held.
schedule_tick(s, t) ==
    LET c == cancel_after(s)
    IN [c EXCEPT !.timers = @ \cup {t + TICK_SECONDS}, !.after_id = t + TICK_SECONDS]

clear_error(s) == [s EXCEPT !.err_box = ""]

show_error(s, msg) == [clear_error(s) EXCEPT !.err_box = msg]

\* toast(message): one more notification of that kind shown to the user.
toast(s, kind) ==
    IF kind \in DOMAIN s.toasts
    THEN [s EXCEPT !.toasts[kind] = Min(ToastCap, @ + 1)]
    ELSE s

\* ------------------------------------------------------------ the handlers
on_reset_partial(s) ==
    LET c == clear_error(cancel_after(s))
    IN [c EXCEPT
          !.animating = FALSE,
          !.paused = FALSE,
          !.seg_idx = 0,
          !.seg_start = 0,
          !.feed_on = TRUE,
          !.seg_durations = <<0, 0, 0>>,
          !.total_duration = 0,
          !.last_calc = NoCalc,
          !.toasts = NoToasts,
          !.holes_min = Unset]

\* on_reset: every per-run field back to its construction value.
on_reset(s) ==
    LET c == clear_error(cancel_after(s))
    IN [c EXCEPT
          !.animating = FALSE,
          !.paused = FALSE,
          !.seg_idx = 0,
          !.seg_start = 0,
          !.feed_events = <<>>,
          !.feed_on = TRUE,
          !.seg_durations = <<0, 0, 0>>,
          !.total_duration = 0,
          !.notified_stage1 = FALSE,
          !.notified_stage2 = FALSE,
          !.notified_exit = FALSE,
          !.last_calc = NoCalc,
          !.toasts = NoToasts,
          !.holes_min = Unset]

\* _update_bar_targets: the bar durations follow the display mode, unless a
\* run is animating.
update_bar_targets(s, mode) ==
    IF s.last_calc = NoCalc THEN s
    ELSE LET targets == IF mode = "independant" THEN <<0, 0, 0>>
                        ELSE s.last_calc.parts_reparties
             seconds == [k \in 1..3 |-> Max(0, targets[k])]
         IN IF s.animating THEN s
            ELSE [s EXCEPT !.seg_durations = seconds,
                           !.total_duration = Sum3(seconds)]

cleared_kept(evs) == evs

\* feed_events.clear() at the beginning of a run or after a calculation
cleared(evs) == <<>>

\* on_calculer with the entry fields holding e.
on_calculer(s, e, mode) ==
    LET s0 == IF s.animating \/ s.paused THEN on_reset(s) ELSE cancel_after(s)
        s1 == clear_error(s0)
    IN IF e \in InvalidEntries THEN show_error(s1, "Saisie invalide")
       ELSE IF e = "badtotal" THEN show_error(s1, "Temps calcule <= 0")
       ELSE LET plan == PlanOf(e)
                s2 == [s1 EXCEPT !.seg_durations = plan.parts_reparties,
                                 !.feed_events = cleared(@),
                                 !.feed_on = TRUE,
                                 !.holes_min = Unset,
                                 !.last_calc = plan]
                s3 == update_bar_targets(s2, mode)
            IN [s3 EXCEPT !.total_duration = Sum3(s3.seg_durations),
                          !.notified_stage1 = FALSE,
                          !.notified_stage2 = FALSE,
                          !.notified_exit = FALSE]

\* _sim_minutes: the global simulation time, in model units.
sim_minutes(s, t) ==
    LET base_min == SumPrefix(s.seg_durations, s.seg_idx)
    IN IF ~s.animating THEN base_min
       ELSE IF s.paused THEN base_min + Max(0, s.pause_t0 - s.seg_start)
       ELSE base_min + (t - s.seg_start)

StageDone_strict(elapsed, dur) == elapsed > dur

\* The stage is over when the elapsed time has reached its duration.
StageDone(elapsed, dur) == elapsed >= dur

ExitDue_unlatched(s, total_remaining) ==
    /\ s.total_duration > EXIT_WINDOW
    /\ total_remaining <= EXIT_WINDOW

\* The "product will exit" notification is due.
ExitDue(s, total_remaining) ==
    /\ ~s.notified_exit
    /\ s.total_duration > EXIT_WINDOW
    /\ total_remaining <= EXIT_WINDOW

\* The simulation time the progress bars show once _tick has set the bar of
\* the active stage (set_progress(dur) when the stage is over, else
\* set_progress(elapsed)), the bars of the earlier stages being full.
ShownAt(s, t) ==
    LET dur == Max(DUR_FLOOR, s.seg_durations[s.seg_idx + 1])
        elapsed == t - s.seg_start
    IN SumPrefix(s.seg_durations, s.seg_idx)
         + (IF elapsed >= dur THEN dur ELSE elapsed)

\* t_now_min, the simulation time the hole overlay is computed for.
HolesAt(s, elapsed) == SumPrefix(s.seg_durations, s.seg_idx) + Max(0, elapsed)

\* _tick at wall-clock time t.
tick(s, t) ==
    IF ~s.animating \/ s.paused THEN s
    ELSE
      LET i == s.seg_idx
          dur == Max(DUR_FLOOR, s.seg_durations[i + 1])
          elapsed == t - s.seg_start
          remaining_current == Max(0, dur - elapsed)
          remaining_future == SumAfter(s.seg_durations, i)
          total_remaining == Max(0, remaining_current + remaining_future)
          s1 == IF ExitDue(s, total_remaining)
                THEN toast([s EXCEPT !.notified_exit = TRUE], "exit")
                ELSE s
      IN IF StageDone(elapsed, dur)
         THEN LET s2 == IF i = 0 /\ ~s1.notified_stage1
                        THEN [toast(s1, "belt2") EXCEPT !.notified_stage1 = TRUE]
                        ELSE IF i = 1 /\ ~s1.notified_stage2
                        THEN [toast(s1, "belt3") EXCEPT !.notified_stage2 = TRUE]
                        ELSE s1
                  s3 == [s2 EXCEPT !.seg_idx = i + 1]
              IN IF s3.seg_idx >= 3
                 THEN [s3 EXCEPT !.animating = FALSE, !.feed_on = TRUE]
                 ELSE schedule_tick([s3 EXCEPT !.seg_start = t], t)
         ELSE schedule_tick(
                [s1 EXCEPT !.holes_min = IF show_holes THEN HolesAt(s, elapsed)
                                         ELSE @], t)

StillNoPlan_unchecked(s) == FALSE

\* The second test of on_start: the calculation it ran left no plan.
StillNoPlan(s) == Sum3(s.seg_durations) <= 0

\* on_start with the entry fields holding e.
on_start(s, e, mode, t) ==
    IF s.animating THEN s
    ELSE LET s1 == IF Sum3(s.seg_durations) <= 0 THEN on_calculer(s, e, mode) ELSE s
         IN IF StillNoPlan(s1) THEN s1
            ELSE tick(cancel_after(
                   [s1 EXCEPT !.animating = TRUE,
                              !.paused = FALSE,
                              !.seg_idx = 0,
                              !.seg_start = t,
                              !.total_duration = Sum3(s1.seg_durations),
                              !.notified_stage1 = FALSE,
                              !.notified_stage2 = FALSE,
                              !.notified_exit = FALSE,
                              !.feed_events = cleared(@),
                              !.feed_on = TRUE,
                              !.toasts = NoToasts,
                              !.holes_min = Unset]), t)

ResumedStart_unshifted(seg_start, delta) == seg_start

\* The stage start after a pause that lasted delta.
ResumedStart(seg_start, delta) == seg_start + delta

\* on_pause: pause, or resume when already paused.
on_pause(s, t) ==
    IF ~s.animating THEN s
    ELSE IF ~s.paused
    THEN cancel_after([s EXCEPT !.paused = TRUE, !.pause_t0 = t])
    ELSE LET delta == t - s.pause_t0
         IN tick([s EXCEPT !.seg_start = ResumedStart(s.seg_start, delta),
                           !.paused = FALSE], t)

FeedStopAllowed_always(s) == TRUE

\* A feed stop is accepted only while a run is animating.
FeedStopAllowed(s) == s.animating

on_feed_stop(s, t) ==
    IF ~FeedStopAllowed(s)
    THEN show_error(s, "Lance la simulation")
    ELSE IF ~s.feed_on THEN s
    ELSE toast([s EXCEPT
                  !.feed_events = Append(@, [start_min |-> sim_minutes(s, t),
                                             end_min |-> Unset]),
                  !.feed_on = FALSE], "feed")

LastOpen_none(evs) == 0

\* The index of the last event still open, 0 when there is none.
LastOpen(evs) ==
    LET open == {k \in 1..Len(evs) : evs[k].end_min = Unset}
    IN IF open = {} THEN 0 ELSE CHOOSE k \in open : \A m \in open : m <= k

on_feed_resume(s, t) ==
    IF ~s.animating THEN s
    ELSE IF s.feed_on THEN s
    ELSE LET k == LastOpen(s.feed_events)
             evs == IF k = 0 THEN s.feed_events
                    ELSE [s.feed_events EXCEPT ![k].end_min = sim_minutes(s, t)]
         IN toast([s EXCEPT !.feed_events = evs, !.feed_on = TRUE], "feed")

\* ------------------------------------------------- flow.py: gap projection
\* Times are whole minutes, frequencies and distances whole numbers, so every
\* position f * dt is a whole number.  None is the empty tuple.
NoHole == <<>>

clip_open(value, lo, hi) == value

clip(value, lo, hi) == Max(lo, Min(hi, value))

CumPrev_none(tjs, belt_idx) == 0

\* cum_prev = sum(tjs[:belt_idx]) for the 0-based belt
CumPrev(tjs, belt_idx) == SumPrefix(tjs, belt_idx)

BackEdge_front(fj, t_now_min, t_in_front, t_in_back) == fj * (t_now_min - t_in_front)

\* The unclipped position of the trailing edge of the void.
BackEdge(fj, t_now_min, t_in_front, t_in_back) == fj * (t_now_min - t_in_back)

\* _hole_on_belt: the interval [x0, x1] the void of ev occupies on the belt.
hole_on_belt(ev, t_now_min, belt_idx, tjs, fs, Ds) ==
    LET cum_prev == CumPrev(tjs, belt_idx)
        tj == tjs[belt_idx + 1]
        fj == fs[belt_idx + 1]
        Dj == Ds[belt_idx + 1]
        s == ev.start_min
        e == IF ev.end_min # Unset THEN ev.end_min ELSE t_now_min
        t_in_front == s + cum_prev
        t_in_back == e + cum_prev
        t_out_front == t_in_front + tj
        t_out_back == t_in_back + tj
        x_front == clip(fj * (t_now_min - t_in_front), 0, Dj)
        x_back == clip(BackEdge(fj, t_now_min, t_in_front, t_in_back), 0, Dj)
        x0 == IF t_now_min < t_in_back THEN 0 ELSE x_back
        x1 == IF t_now_min < t_in_back THEN x_front
              ELSE IF t_now_min <= t_out_front THEN x_front
              ELSE Dj
    IN IF t_now_min < t_in_front \/ t_now_min > t_out_back THEN NoHole
       ELSE IF x1 - x0 <= HOLE_EPS THEN NoHole
       ELSE <<x0, x1>>

\* The holes of one belt, in event order (the inner loop of holes_for_all_belts).
RECURSIVE BeltHoles(_, _, _, _, _, _)
BeltHoles(events, t_now_min, belt, tjs, fs, Ds) ==
    IF events = <<>> THEN <<>>
    ELSE LET seg == hole_on_belt(Head(events), t_now_min, belt, tjs, fs, Ds)
             rest == BeltHoles(Tail(events), t_now_min, belt, tjs, fs, Ds)
         IN IF seg # NoHole THEN <<seg>> \o rest ELSE rest

holes_for_all_belts(events, t_now_min, tjs, fs, Ds) ==
    [b \in 1..3 |-> BeltHoles(events, t_now_min, b - 1, tjs, fs, Ds)]

\* The belts the projection is exercised on: the worked example (durations
\* 10, 8, 12 min, frequencies 40, 60, 30, distances f * t), a short line
\* whose distances equal f * t, and one whose distances differ from f * t.
ExampleCfg == [t |-> <<10, 8, 12>>, f |-> <<40, 60, 30>>, D |-> <<400, 480, 360>>]
Configs == {ExampleCfg,
            [t |-> <<2, 1, 2>>, f |-> <<1, 2, 1>>, D |-> <<2, 2, 2>>],
            [t |-> <<2, 1, 2>>, f |-> <<2, 2, 2>>, D |-> <<3, 3, 3>>]}

Project(events, t) == holes_for_all_belts(events, t, h_cfg.t, h_cfg.f, h_cfg.D)

\* The clock part stays as constructed while the projection is exercised.
AppIdle ==
    /\ app = InitApp
    /\ now = 0
    /\ last_op = "init"
    /\ active = 0

HInit ==
    /\ AppIdle
    /\ PIdle
    /\ h_cfg \in Configs
    /\ h_t = 0
    /\ h_events = <<>>
    /\ h_holes = <<<<>>, <<>>, <<>>>>

\* Feed stop at the current simulation time: a new open GapEvent.
HStop ==
    /\ Len(h_events) < HMaxEvents
    /\ \A k \in 1..Len(h_events) : h_events[k].end_min # Unset
    /\ h_events' = Append(h_events, [start_min |-> h_t, end_min |-> Unset])
    /\ h_holes' = Project(h_events', h_t)
    /\ UNCHANGED <<h_cfg, h_t, app, now, last_op, active, pvars>>

\* Feed resume at the current simulation time: the open GapEvent is closed.
HResume ==
    /\ LastOpen(h_events) # 0
    /\ h_events' = [h_events EXCEPT ![LastOpen(h_events)].end_min = h_t]
    /\ h_holes' = Project(h_events', h_t)
    /\ UNCHANGED <<h_cfg, h_t, app, now, last_op, active, pvars>>

\* One minute later the tick projects the events again.
HTick ==
    /\ h_t < HMaxT
    /\ h_t' = h_t + 1
    /\ h_holes' = Project(h_events, h_t')
    /\ UNCHANGED <<h_cfg, h_events, app, now, last_op, active, pvars>>

HNext ==
    \/ HStop
    \/ HResume
    \/ HTick

SpecHole == HInit /\ [][HNext]_vars

\* ------------------------------------------------ timeline.py: FeedTimeline
\* Times are whole minutes.  alpha is counted in units of 1 / ramp_minutes, so
\* the value 1.0 is ONE, delta_min / ramp is delta_min units, and every value
\* the code computes is a whole number of units.  ramp_minutes keeps its
\* default (positive, so the floor max(1e-6, ramp) leaves it alone).
RAMP_DURATION_MIN == RampUnits
ONE == RAMP_DURATION_MIN

clamp_open(value) == value

\* FeedTimeline._clamp
clamp(value) == Max(0, Min(ONE, value))

\* FeedTimeline.reset
tl_reset(t_min, alpha0, target) ==
    [alpha0 |-> clamp(alpha0),
     initial_time |-> t_min,
     events |-> <<(<<t_min, IF target # 0 THEN 1 ELSE 0>>)>>]

tl_set_target_always(s, target, t_min) ==
    [s EXCEPT !.events = Append(@, <<t_min, target>>)]

\* FeedTimeline.set_target
tl_set_target(s, target, t_min) ==
    LET tg == IF target # 0 THEN 1 ELSE 0
    IN IF s.events # <<>> /\ t_min < s.events[Len(s.events)][1] THEN s
       ELSE IF s.events = <<>> THEN tl_reset(t_min, s.alpha0, tg)
       ELSE IF s.events[Len(s.events)][2] # tg
            THEN [s EXCEPT !.events = Append(@, <<t_min, tg>>)]
       ELSE s

\* FeedTimeline._advance
advance(alpha, target, delta_min) ==
    IF delta_min <= 0 THEN alpha
    ELSE IF target # 0 THEN alpha + delta_min
    ELSE alpha - delta_min

\* The loop of alpha_at over events[i..], then the last partial segment.
RECURSIVE AlphaLoop(_, _, _, _, _, _)
AlphaLoop(events, i, t, alpha, last_t, last_target) ==
    IF i > Len(events) \/ events[i][1] > t
    THEN advance(alpha, last_target, t - last_t)
    ELSE AlphaLoop(events, i + 1, t,
                   advance(alpha, last_target, events[i][1] - last_t),
                   events[i][1], events[i][2])

\* FeedTimeline.alpha_at
alpha_at(s, t_min) ==
    IF s.events = <<>> THEN s.alpha0
    ELSE IF t_min <= s.events[1][1] THEN s.alpha0
    ELSE clamp(AlphaLoop(s.events, 2, t_min, s.alpha0, s.events[1][1], s.events[1][2]))

\* The values the callers pass.
TLTimes == 0..TLMaxT
TLAlphas == (0 - 1)..(ONE + 1)

\* FeedTimeline(alpha0 = a, initial_time = t0): __post_init__ resets.
TLInit ==
    /\ AppIdle
    /\ HIdle
    /\ show_holes = FALSE
    /\ CIdle
    /\ KIdle
    /\ tl \in {tl_reset(t0, a, 0) : t0 \in TLTimes, a \in TLAlphas}

TLReset ==
    \E t0 \in TLTimes, a \in TLAlphas, tg \in {0, 1} :
        /\ tl' = tl_reset(t0, a, tg)
        /\ UNCHANGED <<mainvars, hvars, ovars, cvars, kvars>>

TLSetTarget ==
    \E t \in TLTimes, tg \in {0, 1} :
        /\ Len(tl.events) < TLMaxEvents
        /\ tl' = tl_set_target(tl, tg, t)
        /\ UNCHANGED <<mainvars, hvars, ovars, cvars, kvars>>

TLNext ==
    \/ TLReset
    \/ TLSetTarget

SpecTimeline == TLInit /\ [][TLNext]_vars

\* ------------------------------------------- the calculations (pure functions)
\* Frequencies are whole numbers of Hz (a value in the display unit, above
\* 200, is a multiple of 100, so that value / 100 is whole).  The results are
\* exact fractions <<numerator, denominator>> in lowest terms with a positive
\* denominator, so two results are equal exactly when the tuples are; the
\* rounding of the floats is left out.  "ZeroDivisionError" stands for the
\* exception raised by a float division by zero; INF, a fraction with a zero
\* denominator, stands for an infinite float.
Abs(x) == IF x < 0 THEN 0 - x ELSE x

RECURSIVE GCD(_, _)
GCD(a, b) == IF b = 0 THEN a ELSE GCD(b, a % b)

Rat(n, d) ==
    LET g == GCD(Abs(n), Abs(d))
        sgn == IF (n < 0) # (d < 0) THEN 0 - 1 ELSE 1
    IN <<sgn * (Abs(n) \div g), Abs(d) \div g>>

RInt(n) == <<n, 1>>

RAdd(a, b) ==
    LET g == GCD(a[2], b[2])
    IN Rat(a[1] * (b[2] \div g) + b[1] * (a[2] \div g), (a[2] \div g) * b[2])

RMul(a, b) ==
    LET g1 == GCD(Abs(a[1]), b[2])
        g2 == GCD(Abs(b[1]), a[2])
    IN Rat((a[1] \div g1) * (b[1] \div g2), (a[2] \div g2) * (b[2] \div g1))

RDiv(a, b) == RMul(a, IF b[1] < 0 THEN <<0 - b[2], 0 - b[1]>> ELSE <<b[2], b[1]>>)

RSum3(w) == RAdd(RAdd(w[1], w[2]), w[3])

\* The constants of _clamp_hz, parse_hz and of the h0 field of on_calculer.
HZ_MIN == 5
HZ_MAX == 99
CENTI_LIMIT == 200
CENTI == 100
H0_DEFAULT == 2

\* utils.parse_hz on a numeric text
parse_hz(value) == IF value > CENTI_LIMIT THEN value \div CENTI ELSE value

\* calc_models._clamp_hz
clamp_hz(f) ==
    LET g == IF f > CENTI_LIMIT THEN f \div CENTI ELSE f
    IN Max(HZ_MIN, Min(HZ_MAX, g))

share_weight(total, w, s) == w

\* total * (w / s)
share(total, w, s) == RMul(RInt(total), RDiv(w, s))

\* (total / 3, total / 3, total / 3)
EqualSplit(total) == <<Rat(total, 3), Rat(total, 3), Rat(total, 3)>>

\* calc_models.parts_reparties, K being get_current_anchor()
parts_reparties(total_min, f, K) ==
    LET w == [i \in 1..3 |-> Rat(K[i], clamp_hz(f[i]))]
        s == RSum3(w)
    IN IF s[1] <= 0 THEN EqualSplit(total_min)
       ELSE [i \in 1..3 |-> share(total_min, w[i], s)]

\* calibration.split_contributions(split = "anchor"), K being anch
split_contributions(total_minutes, f, K) ==
    IF \E i \in 1..3 : f[i] = 0 THEN "ZeroDivisionError"
    ELSE LET w == [i \in 1..3 |-> Rat(K[i], f[i])]
             S == RSum3(w)
         IN IF S[1] <= 0 THEN EqualSplit(total_minutes)
            ELSE [i \in 1..3 |-> share(total_minutes, w[i], S)]

\* calculations.split_contributions (the definition used when the calibration
\* module is absent), split = "anchor" with anch given, for frequencies that
\* _safe_freq leaves alone (abs(f) >= 1e-9)
split_contributions_fallback(total, f, K) ==
    LET base == [i \in 1..3 |-> Rat(K[i], f[i])]
        denom == RSum3(base)
    IN IF denom[1] <= 0 THEN <<RInt(0), RInt(0), RInt(0)>>
       ELSE LET scale == RDiv(RInt(total), denom)
            IN [i \in 1..3 |-> RMul(base[i], scale)]

\* calculations.compute_simulation_plan: anchor_terms, which become the
\* stages' duration_min and anchor_durations
compute_simulation_plan(f, K) ==
    IF \E i \in 1..3 : f[i] = 0 THEN "ZeroDivisionError"
    ELSE [i \in 1..3 |-> Rat(K[i], f[i])]

\* on_calculer: what it does with the entry fields (three frequencies and the
\* entry thickness h0) before the models are evaluated
read_entries(f, h0) ==
    IF \E i \in 1..3 : parse_hz(f[i]) <= 0
    THEN [error |-> TRUE, f |-> <<>>, h0_cm |-> 0]
    ELSE [error |-> FALSE,
          f |-> [i \in 1..3 |-> parse_hz(f[i])],
          h0_cm |-> IF h0 > 0 THEN h0 ELSE H0_DEFAULT]

INF == <<1, 0>>

Raised(exc) == [raised |-> exc]

\* flow.thickness_and_accum
thickness_and_accum_flow(f, h0_cm) ==
    IF f[2] = 0 \/ f[3] = 0 THEN Raised("ZeroDivisionError")
    ELSE [raised |-> "none",
          h1_cm |-> RInt(h0_cm),
          h2_cm |-> RMul(RInt(h0_cm), Rat(f[1], f[2])),
          h3_cm |-> RMul(RInt(h0_cm), Rat(f[1], f[3])),
          A12_x |-> Rat(f[1], f[2]),
          A23_x |-> Rat(f[2], f[3])]

\* calculations.thickness_and_accum, K being get_current_anchor()
thickness_and_accum(f, h0_cm, K) ==
    IF \E i \in 1..3 : K[i] = 0 THEN Raised("ZeroDivisionError")
    ELSE LET u == [i \in 1..3 |-> Rat(f[i], K[i])]
             h2 == IF u[2][1] > 0 THEN RMul(RInt(h0_cm), RDiv(u[1], u[2])) ELSE INF
             h3 == IF u[3][1] > 0 THEN RMul(RInt(h0_cm), RDiv(u[1], u[3])) ELSE INF
         IN IF u[2][1] = 0 \/ u[3][1] = 0 THEN Raised("ZeroDivisionError")
            ELSE [raised |-> "none",
                  h1_cm |-> RInt(h0_cm),
                  h2_cm |-> h2,
                  h3_cm |-> h3,
                  A12_x |-> RDiv(u[1], u[2]),
                  A23_x |-> RDiv(u[2], u[3])]

\* The inputs: frequencies below, inside and above the band [5, 99], in the
\* display unit (500), zero and negative; the anchors of the calibration in
\* force (a positive set in the proportion of the defaults, and degenerate
\* ones); totals and entry thicknesses from below zero upwards.
Freqs == {0 - 40, 0, 2, 5, 10, 40, 100, 500}
Anchors == {<<21, 23, 70>>, <<0, 0, 0>>, <<0 - 21, 0 - 23, 0 - 70>>}
Totals == 0..MaxTotal
H0s == (0 - 1)..MaxH0

CInit ==
    /\ AppIdle
    /\ HIdle
    /\ tl = TLNone
    /\ show_holes = FALSE
    /\ KIdle
    /\ c_in \in [f : Freqs \X Freqs \X Freqs, total : Totals, K : Anchors, h0 : H0s]
    /\ c_op = "none"
    /\ c_out = <<>>

Apply(op, out) ==
    /\ c_op' = op
    /\ c_out' = out
    /\ UNCHANGED <<c_in, mainvars, hvars, tvars, ovars, kvars>>

CPartsReparties ==
    /\ c_op = "none"
    /\ Apply("parts_reparties", parts_reparties(c_in.total, c_in.f, c_in.K))

CSplit ==
    /\ c_op = "none"
    /\ Apply("split_contributions", split_contributions(c_in.total, c_in.f, c_in.K))

CSplitFallback ==
    /\ c_op = "none"
    /\ \A i \in 1..3 : c_in.f[i] # 0
    /\ Apply("split_contributions_fallback",
             split_contributions_fallback(c_in.total, c_in.f, c_in.K))

\* on_calculer reads the fields; compute_simulation_plan runs on what it accepts.
CEntries ==
    /\ c_op = "none"
    /\ Apply("read_entries", read_entries(c_in.f, c_in.h0))

CPlan ==
    /\ c_op = "none"
    /\ ~read_entries(c_in.f, c_in.h0).error
    /\ Apply("compute_simulation_plan",
             compute_simulation_plan(read_entries(c_in.f, c_in.h0).f, c_in.K))

\* The thickness functions are given the entry thickness on_calculer hands
\* them, which is positive.
CThicknessFlow ==
    /\ c_op = "none"
    /\ Apply("thickness_and_accum_flow",
             thickness_and_accum_flow(c_in.f, IF c_in.h0 > 0 THEN c_in.h0 ELSE H0_DEFAULT))

CThickness ==
    /\ c_op = "none"
    /\ Apply("thickness_and_accum",
             thickness_and_accum(c_in.f, IF c_in.h0 > 0 THEN c_in.h0 ELSE H0_DEFAULT, c_in.K))

CNext ==
    \/ CPartsReparties
    \/ CSplit
    \/ CSplitFallback
    \/ CEntries
    \/ CPlan
    \/ CThicknessFlow
    \/ CThickness

SpecCalc == CInit /\ [][CNext]_vars

\* ------------------------------------- calibration: overrides and the window
\* What _CURRENT of calibration_overrides holds, what anchor_params.json and
\* speed_params.json hold, and the label lbl_info of the calibration window.
\* A file that json.load or AnchorParams(**d) rejects is the tuple <<0>>.
Unreadable == <<0>>

\* calibration_overrides._to_hz
to_hz(x) ==
    LET f == IF x > CENTI_LIMIT THEN x \div CENTI ELSE x
    IN Max(HZ_MIN, Min(HZ_MAX, f))

\* calibration_overrides.fit_anchor_from_direct: K_i = t_i * f_i and
\* B = T - (K1/f1 + K2/f2 + K3/f3), each K_i / f_i being t_i again.
fit_anchor_from_direct(f_ref, t_ref, T_total) ==
    LET f == [i \in 1..3 |-> to_hz(f_ref[i])]
        K == [i \in 1..3 |-> t_ref[i] * f[i]]
    IN <<K[1], K[2], K[3],
         T_total - ((K[1] \div f[1]) + (K[2] \div f[2]) + (K[3] \div f[3]))>>

\* f"{x:.2f}" read back by float(): the value to the nearest hundredth.
Fmt2(x) ==
    IF x >= 0 THEN ((x + 50) \div 100) * 100
    ELSE 0 - ((((0 - x) + 50) \div 100) * 100)

\* The text _on_preview writes in lbl_info, as _on_apply parses it.
PreviewText(params) == [i \in 1..4 |-> Fmt2(params[i])]

\* calibration_overrides.load_anchor_from_disk: the value _CURRENT gets.
load_anchor_from_disk(disk) ==
    IF disk = <<>> \/ disk = Unreadable THEN DEFAULT_ANCHOR_CAL ELSE disk

\* speed_overrides.load_speed_from_disk: the value _CURRENT gets.
load_speed_from_disk(disk) ==
    IF disk = <<>> \/ disk = Unreadable THEN <<>> ELSE disk

\* speed_overrides.reset_speed_to_default: what is left of speed_params.json.
SpeedStoreAfterReset(disk) == <<>>

\* The entry fields of the "Ancrage simple" tab: the values the window shows
\* when it opens (60 Hz, 50.0 min, no total) and values the user typed.
FieldSets ==
    {[f |-> <<60, 60, 60>>, t |-> <<500000, 500000, 500000>>,
      has_T |-> FALSE, T |-> 0],
     [f |-> <<5, 5, 5>>, t |-> <<10004, 20000, 30000>>,
      has_T |-> TRUE, T |-> 65000]}

FieldsFit(e) ==
    fit_anchor_from_direct(e.f, e.t,
                           IF e.has_T THEN e.T ELSE e.t[1] + e.t[2] + e.t[3])

\* The speed sets _on_speed_apply can build: (a, b) per belt in
\* ten-thousandths, the neutral one when no table has a point.
SpeedFits == {<<(<<0, 0>>), (<<0, 0>>), (<<0, 0>>)>>,
              <<(<<30, 0>>), (<<25, 0>>), (<<10, 0>>)>>}

\* What the two files hold when the application starts.
AnchorStores == {<<>>, Unreadable, <<30000000, 30000000, 30000000, 0>>}
SpeedStores == {<<>>, <<(<<30, 0>>), (<<25, 0>>), (<<10, 0>>)>>}

\* FourApp.__init__ has loaded both stores.
KInit ==
    /\ AppIdle
    /\ HIdle
    /\ tl = TLNone
    /\ show_holes = FALSE
    /\ CIdle
    /\ cal_op = "init"
    /\ \E d \in AnchorStores, sd \in SpeedStores :
          cal = [cur |-> load_anchor_from_disk(d), disk |-> d,
                 speed_cur |-> load_speed_from_disk(sd), speed_disk |-> sd,
                 preview |-> <<>>, open |-> FALSE, applied |-> <<>>]

KFrame == UNCHANGED <<mainvars, hvars, tvars, ovars, cvars>>

\* "Calibrer...": CalibrationWindow(self), which loads both stores.
KOpen ==
    /\ ~cal.open
    /\ cal' = [cal EXCEPT !.open = TRUE,
                          !.preview = <<>>,
                          !.cur = load_anchor_from_disk(cal.disk),
                          !.speed_cur = load_speed_from_disk(cal.speed_disk)]
    /\ cal_op' = "open"
    /\ KFrame

\* "Fermer"
KClose ==
    /\ cal.open
    /\ cal' = [cal EXCEPT !.open = FALSE]
    /\ cal_op' = "close"
    /\ KFrame

\* "Apercu" on the first tab
KPreview ==
    /\ cal.open
    /\ \E e \in FieldSets : cal' = [cal EXCEPT !.preview = PreviewText(FieldsFit(e))]
    /\ cal_op' = "preview"
    /\ KFrame

\* "Appliquer": the previewed text when there is one, else the fit of the
\* fields; refresh_after_calibration then recalculates.
KApply ==
    /\ cal.open
    /\ \E e \in FieldSets :
          LET params == IF cal.preview = <<>> THEN FieldsFit(e) ELSE cal.preview
          IN cal' = [cal EXCEPT !.cur = params, !.applied = params]
    /\ cal_op' = "apply"
    /\ KFrame

\* "Sauver": save_anchor_to_disk
KSave ==
    /\ cal.open
    /\ cal' = [cal EXCEPT !.disk = cal.cur]
    /\ cal_op' = "save"
    /\ KFrame

\* "Reinitialiser": reset_anchor_to_default
KReset ==
    /\ cal.open
    /\ cal' = [cal EXCEPT !.cur = DEFAULT_ANCHOR_CAL,
                          !.preview = <<>>,
                          !.applied = <<>>]
    /\ cal_op' = "reset"
    /\ KFrame

\* "Appliquer vitesses"
KSpeedApply ==
    /\ cal.open
    /\ \E sp \in SpeedFits : cal' = [cal EXCEPT !.speed_cur = sp, !.preview = <<>>]
    /\ cal_op' = "speed_apply"
    /\ KFrame

\* "Sauver vitesses": nothing is written while no speed set is in memory.
KSpeedSave ==
    /\ cal.open
    /\ cal' = IF cal.speed_cur = <<>> THEN [cal EXCEPT !.preview = <<>>]
              ELSE [cal EXCEPT !.speed_disk = cal.speed_cur, !.preview = <<>>]
    /\ cal_op' = "speed_save"
    /\ KFrame

\* "Reinitialiser vitesses": reset_speed_to_default
KSpeedReset ==
    /\ cal.open
    /\ cal' = [cal EXCEPT !.speed_cur = <<>>,
                          !.speed_disk = SpeedStoreAfterReset(@),
                          !.preview = <<>>]
    /\ cal_op' = "speed_reset"
    /\ KFrame

\* "Calculer" in the main window: the models read get_current_anchor().
KCalculate ==
    /\ ~cal.open
    /\ cal_op' = "calculate"
    /\ UNCHANGED cal
    /\ KFrame

KNext ==
    \/ KOpen
    \/ KClose
    \/ KPreview
    \/ KApply
    \/ KSave
    \/ KReset
    \/ KSpeedApply
    \/ KSpeedSave
    \/ KSpeedReset
    \/ KCalculate

SpecCalib == KInit /\ [][KNext]_vars

\* -------------------------------------------------------------- the actions
\* The user presses "Calculer" (or Return) with the fields holding e.
Calculer ==
    \E e \in Entries :
        /\ app' = on_calculer(app, e, parts_mode)
        /\ last_op' = IF e \in InvalidEntries THEN "calculer_invalid"
                      ELSE IF e = "badtotal" THEN "calculer_badtotal"
                      ELSE "calculer"
        /\ UNCHANGED <<now, active, hvars, pvars>>

\* The user presses "Start" (or F5) with the fields holding e.
Start ==
    \E e \in Entries :
        /\ app' = on_start(app, e, parts_mode, now)
        /\ last_op' = IF app.animating THEN "other"
                      ELSE IF Sum3(app.seg_durations) > 0 THEN "start"
                      ELSE IF e \in PlanEntries THEN "start_calc"
                      ELSE "start_noplan"
        /\ active' = IF ~app.animating /\ app'.animating THEN 0 ELSE active
        /\ UNCHANGED <<now, hvars, pvars>>

\* The user presses "Pause" / "Reprendre" (or space).
Pause ==
    /\ app' = on_pause(app, now)
    /\ last_op' = IF app.animating /\ app.paused THEN "resume" ELSE "other"
    /\ UNCHANGED <<now, active, hvars, pvars>>

\* The user presses "Reset" (or Ctrl-R).
Reset ==
    /\ app' = on_reset(app)
    /\ last_op' = "reset"
    /\ UNCHANGED <<now, active, hvars, pvars>>

FeedStop ==
    /\ app.animating /\ app.feed_on => Len(app.feed_events) < MaxEvents
    /\ app' = on_feed_stop(app, now)
    /\ last_op' = IF app.animating THEN "other" ELSE "feed_stop_refused"
    /\ UNCHANGED <<now, active, hvars, pvars>>

FeedResume ==
    /\ app' = on_feed_resume(app, now)
    /\ last_op' = "other"
    /\ UNCHANGED <<now, active, hvars, pvars>>

\* Tk runs a tick callback that has come due.
TimerFire ==
    \E d \in app.timers :
        /\ d <= now
        /\ app' = tick([app EXCEPT !.timers = @ \ {d}], now)
        /\ last_op' = "tick"
        /\ UNCHANGED <<now, active, hvars, pvars>>

\* The error banner clears itself (the after(4000) of _show_error).
ErrorTimeout ==
    /\ app.err_box # ""
    /\ app' = clear_error(app)
    /\ last_op' = "other"
    /\ UNCHANGED <<now, active, hvars, pvars>>

\* The wall clock advances by one unit; a due callback runs first.  No handler
\* reads a clock value taken outside a run (on_start takes a fresh one), so
\* the clock is only moved while a run is animating or paused.
Advance ==
    /\ now < MaxTime
    /\ app.animating
    /\ \A d \in app.timers : now < d
    /\ now' = now + 1
    /\ active' = IF app.animating /\ ~app.paused THEN active + 1 ELSE active
    /\ last_op' = "other"
    /\ UNCHANGED <<app, hvars, pvars>>

Next ==
    \/ Calculer
    \/ Start
    \/ Pause
    \/ Reset
    \/ FeedStop
    \/ FeedResume
    \/ TimerFire
    \/ ErrorTimeout
    \/ Advance

Spec == Init /\ [][Next]_vars

\* The user presses "Reprendre": on_pause on a paused run.
Resume ==
    /\ app.animating
    /\ app.paused
    /\ Pause

\* The run under the scheduling the Tk main loop gives it: a callback that is
\* due is run, the wall clock keeps advancing, and a paused run is resumed.
SpecLive ==
    /\ Init
    /\ [][Next]_vars
    /\ WF_vars(TimerFire)
    /\ WF_vars(Advance)
    /\ WF_vars(Resume)

\* The same application with the hole overlay of the bars followed: holes_min
\* is the simulation time the overlay on display was computed for.  Spec
\* studies the clock with the overlay left out.
OverlayInit ==
    /\ AppIdle
    /\ HIdle
    /\ tl = TLNone
    /\ CIdle
    /\ KIdle
    /\ show_holes = TRUE

SpecOverlay == OverlayInit /\ [][Next]_vars

TypeOK ==
    /\ app.seg_idx \in 0..3
    /\ app.seg_start \in 0..MaxTime
    /\ Cardinality(app.timers) <= 1

\* ============================================================ properties
\* The duration of the active stage, as _tick floors it.
Dur(s) == Max(DUR_FLOOR, s.seg_durations[s.seg_idx + 1])

\* The total remaining time _tick computes at wall-clock time t (0 once the
\* third stage is over).
TotalRemaining(s, t) ==
    IF s.seg_idx >= 3 THEN 0
    ELSE Max(0, Max(0, Dur(s) - (t - s.seg_start))
                + SumAfter(s.seg_durations, s.seg_idx))

\* The fields that make up the clock state.
Clock(s) == <<s.animating, s.paused, s.seg_idx, s.seg_start, s.seg_durations,
              s.total_duration>>

\* The whole simulation state named by the claims.
SimState(s) == <<Clock(s), s.notified_stage1, s.notified_stage2, s.notified_exit,
                 s.feed_events, s.feed_on>>

\* The step just taken completed the run.
CompletedNow ==
    /\ last_op \in {"tick", "resume"}
    /\ ~app.animating
    /\ app.seg_idx = 3

\* The time an uninterrupted run of the plan d takes when every tick fires on
\* schedule: each stage ends at the first tick at or after its duration.
CeilTick(x) == ((x + TICK_SECONDS - 1) \div TICK_SECONDS) * TICK_SECONDS
UninterruptedTime(d) == CeilTick(d[1]) + CeilTick(d[2]) + CeilTick(d[3])

\* ---- C1
\* C1 as stated: a resume leaves (now - stage_start), the active stage index
\* and the apparent remaining duration as they were at the instant of the
\* pause, whatever the length of the pause.
C1_ResumeKeepsEverything ==
    [][last_op' = "resume" =>
         /\ now' - app'.seg_start = app.pause_t0 - app.seg_start
         /\ app'.seg_idx = app.seg_idx
         /\ TotalRemaining(app', now') = TotalRemaining(app, app.pause_t0)]_vars

\* C1 amended: a resume always leaves the apparent remaining duration as it
\* was at the instant of the pause; it leaves (now - stage_start) and the
\* stage index as they were when the stage was not yet over at the pause,
\* and otherwise the tick it runs moves to the next stage (or completes).
C1_ResumeKeepsElapsed ==
    [][last_op' = "resume" =>
         /\ TotalRemaining(app', now') = TotalRemaining(app, app.pause_t0)
         /\ IF app.pause_t0 - app.seg_start < Dur(app)
            THEN /\ now' - app'.seg_start = app.pause_t0 - app.seg_start
                 /\ app'.seg_idx = app.seg_idx
                 /\ app'.animating /\ ~app'.paused
            ELSE /\ app'.seg_idx = app.seg_idx + 1
                 /\ ~app'.paused]_vars

\* A run resumed after a pause of two units or more, in the middle of a stage.
C1_Witness ==
    /\ last_op = "resume"
    /\ app.animating /\ ~app.paused
    /\ now - app.pause_t0 >= 2
    /\ now - app.seg_start = 1
    /\ app.seg_durations[app.seg_idx + 1] = 2

\* ---- C2
\* C2 as stated: whatever pauses are inserted, the non-paused time from start
\* to completion equals that of the uninterrupted run of the same plan.
C2_SameCompletionTime ==
    CompletedNow => active = UninterruptedTime(app.seg_durations)

\* C2 amended: whatever pauses are inserted, the non-paused time from start
\* to completion is at least the plan's total and exceeds it by less than
\* one tick period per stage (ticks firing on schedule).
C2_CompletionWithinTicks ==
    CompletedNow =>
        /\ active >= Sum3(app.seg_durations)
        /\ active <= Sum3(app.seg_durations) + 3 * (TICK_SECONDS - 1)

\* A run that was paused for at least two units and then completed.
C2_Witness ==
    /\ CompletedNow
    /\ now - active >= 2

\* ---- C3
\* C3: a timer tick of a running simulation moves to the next stage (setting
\* stage_start = now) or completes the run exactly when the elapsed time has
\* reached the duration of the active stage, and otherwise leaves stage index
\* and stage_start alone; a tick while paused or not running changes
\* nothing; within a run the stage index goes 0, 1, 2, completed.
C3_TickAdvancesByOne ==
    [][/\ (last_op' = "tick" /\ app.animating /\ ~app.paused) =>
            IF now - app.seg_start >= app.seg_durations[app.seg_idx + 1]
            THEN /\ app'.seg_idx = app.seg_idx + 1
                 /\ IF app.seg_idx = 2 THEN ~app'.animating
                    ELSE app'.animating /\ app'.seg_start = now
            ELSE /\ app'.seg_idx = app.seg_idx
                 /\ app'.seg_start = app.seg_start
                 /\ app'.animating
       /\ (~app.animating \/ app.paused) => tick(app, now) = app
       /\ (app.animating /\ app'.animating) =>
            app'.seg_idx \in {app.seg_idx, app.seg_idx + 1}
       /\ (app.animating /\ ~app'.animating) =>
            \/ app.seg_idx = 2 /\ app'.seg_idx = 3
            \/ last_op' \in {"reset", "calculer", "calculer_invalid",
                              "calculer_badtotal"}
       /\ app.animating => app.seg_idx \in 0..2]_vars

\* A timer tick has just moved the run from the second stage to the third.
C3_Witness ==
    /\ last_op = "tick"
    /\ app.animating
    /\ app.seg_idx = 2
    /\ app.seg_start = now

\* ---- C4
\* C4 as stated: no notification is shown twice in a run, and each of the
\* three has been shown by the time the run completes.
C4_EachExactlyOnce ==
    /\ \A k \in DOMAIN app.toasts : app.toasts[k] <= 1
    /\ CompletedNow => \A k \in DOMAIN app.toasts : app.toasts[k] = 1

\* C4 amended: no notification is shown twice in a run; by completion the
\* two belt notifications have been shown once each, and the exit
\* notification once when the plan is longer than the exit window and not
\* at all otherwise.
C4_OncePerRun ==
    /\ \A k \in DOMAIN app.toasts : app.toasts[k] <= 1
    /\ CompletedNow =>
          /\ app.toasts.belt2 = 1
          /\ app.toasts.belt3 = 1
          /\ app.toasts.exit = IF app.total_duration > EXIT_WINDOW THEN 1 ELSE 0

\* A run longer than the exit window completed after a pause, all three shown.
C4_Witness ==
    /\ CompletedNow
    /\ app.total_duration > EXIT_WINDOW
    /\ now - active >= 1
    /\ \A k \in DOMAIN app.toasts : app.toasts[k] = 1

\* ---- C5
\* C5: whatever the state it is invoked in, reset leaves the idle state of
\* construction: not running, not paused, stage 0, durations and total zero,
\* latches cleared, no feed events, feed on, no pending tick.  (pause_t0 is
\* the one field it leaves; it is written by the next pause before any read.)
C5_ResetIsFresh ==
    last_op = "reset" => [app EXCEPT !.pause_t0 = 0] = InitApp

\* A reset issued at least three units into a run that had been paused.
C5_Witness ==
    /\ last_op = "reset"
    /\ now >= 3
    /\ app.pause_t0 >= 1

\* ---- C6
\* C6 as stated: a calculate request with invalid input shows an error and
\* leaves the whole simulation state as it was, in every clock state.
C6_InvalidInputChangesNothing ==
    [][last_op' = "calculer_invalid" =>
         /\ app'.err_box # ""
         /\ SimState(app') = SimState(app)]_vars

\* ---- C7
\* C7 as stated: a start request issued with all stage durations zero shows
\* a warning and leaves the simulation idle with its durations unchanged.
C7_StartWithoutPlanRefused ==
    [][last_op' \in {"start_noplan", "start_calc"} =>
         /\ app'.err_box # ""
         /\ Clock(app') = Clock(app)]_vars

\* C7 amended: a start request issued with all stage durations zero first
\* runs the calculation on the entry fields; when they are rejected the error
\* is shown and the clock state is unchanged (idle, stage 0, durations and
\* total as before); when they are accepted the run starts on the new plan.
C7_StartWithoutPlan ==
    [][/\ last_op' = "start_noplan" =>
            /\ app'.err_box # ""
            /\ Clock(app') = Clock(app)
            /\ ~app'.animating /\ app'.seg_idx = 0
       /\ last_op' = "start_calc" =>
            /\ app'.animating /\ ~app'.paused
            /\ app'.seg_idx = 0 /\ app'.seg_start = now
            /\ Sum3(app'.seg_durations) > 0
            /\ app'.total_duration = Sum3(app'.seg_durations)]_vars

\* A start refused for want of a plan, after an earlier run.
C7_Witness ==
    /\ last_op = "start_noplan"
    /\ app.err_box = "Saisie invalide"
    /\ app.pause_t0 >= 1

\* ---- C8
\* C8: a feed-stop request issued while no simulation is animating shows a
\* warning and changes nothing: no GapEvent is recorded, the feed flag stays
\* on and the clock state is unchanged.
C8_FeedStopRefused ==
    [][last_op' = "feed_stop_refused" =>
         /\ app'.err_box # ""
         /\ app'.feed_events = app.feed_events
         /\ app'.feed_on /\ app.feed_on
         /\ SimState(app') = SimState(app)]_vars

\* A feed stop refused after a completed run.
C8_Witness ==
    /\ last_op = "feed_stop_refused"
    /\ app.seg_idx = 3
    /\ app.err_box = "Lance la simulation"

\* ---- C9
\* The closed events (start s < end e) of the projection's list.
ClosedEvents == {k \in 1..Len(h_events) :
                   /\ h_events[k].end_min # Unset
                   /\ h_events[k].start_min < h_events[k].end_min}

\* Belt j (1..3) of the configuration: offset, duration, frequency, distance.
Off(j) == SumPrefix(h_cfg.t, j - 1)

\* What _hole_on_belt returns for event k on belt j at the current time.
HoleNow(k, j) == hole_on_belt(h_events[k], h_t, j - 1, h_cfg.t, h_cfg.f, h_cfg.D)

Reported(x0, x1) == IF x1 - x0 > 0 THEN <<x0, x1>> ELSE NoHole

InExample ==
    /\ h_cfg = ExampleCfg
    /\ h_events = <<[start_min |-> 3, end_min |-> 5]>>

\* C10 as stated: in the example no hole is reported on belt 1 for t >= 10,
\* and the hole is reported on belt 2 starting at t = 10.
C10_LeavesBeltOneAtTen ==
    InExample =>
        /\ h_t >= 10 => h_holes[1] = <<>>
        /\ h_t < 10 => h_holes[2] = <<>>
        /\ h_t \in 10..12 => h_holes[2] # <<>>

\* C10 amended: in the example the void is on belt 1 at every t with
\* 3 < t < 15 and has left it from t = 15 on (its front leaves at 13 = 3 + 10,
\* its tail at 15 = 5 + 10); the hole of the same event is on belt 2 at every
\* t with 13 < t < 23 and at no other time.
C10_LeavesBeltOneAtFifteen ==
    InExample =>
        /\ h_holes[1] # <<>> <=> (3 < h_t /\ h_t < 15)
        /\ h_holes[2] # <<>> <=> (13 < h_t /\ h_t < 23)
        /\ h_t = 14 => h_holes[1] = <<(<<360, 400>>)>> /\ h_holes[2] = <<(<<0, 60>>)>>

\* The example at t = 14: the tail is still on belt 1, the front on belt 2.
C10_Witness ==
    /\ InExample
    /\ h_t = 14
    /\ h_holes[1] # <<>>
    /\ h_holes[2] # <<>>

\* ---- C11
\* The end of event k the projection uses: "now" while the feed is still off.
EndNow(k) == IF h_events[k].end_min # Unset THEN h_events[k].end_min ELSE h_t

\* C11: on every belt j (D_j > 0) each hole (x0, x1) of the projection has
\* 0 <= x0 < x1 <= D_j and a width above the collapse threshold; an event
\* yields no hole on a belt before its leading edge has entered the belt
\* (t < s + off_j) or after its trailing edge has left it (t > e + off_j + t_j);
\* the list of a belt holds exactly the holes of its events, in event order.
C11_HolesWithinBelt ==
    /\ \A j \in 1..3 :
        h_cfg.D[j] > 0 =>
          \A i \in 1..Len(h_holes[j]) :
            /\ 0 <= h_holes[j][i][1]
            /\ h_holes[j][i][1] < h_holes[j][i][2]
            /\ h_holes[j][i][2] <= h_cfg.D[j]
            /\ h_holes[j][i][2] - h_holes[j][i][1] > HOLE_EPS
    /\ \A k \in 1..Len(h_events), j \in 1..3 :
        /\ (\/ h_t < h_events[k].start_min + Off(j)
            \/ h_t > EndNow(k) + Off(j) + h_cfg.t[j]) => HoleNow(k, j) = NoHole
        /\ HoleNow(k, j) # NoHole =>
              \E i \in 1..Len(h_holes[j]) : h_holes[j][i] = HoleNow(k, j)
    /\ \A j \in 1..3 :
        Len(h_holes[j]) = Cardinality({k \in 1..Len(h_events) : HoleNow(k, j) # NoHole})

\* A feed still off after longer than belt 1 takes: the growing hole covers
\* the whole belt and its front is held at D_1.
C11_Witness ==
    /\ h_cfg = ExampleCfg
    /\ h_events = <<[start_min |-> 0, end_min |-> Unset]>>
    /\ h_t = 12
    /\ h_holes[1] = <<(<<0, 400>>)>>
    /\ h_holes[2] = <<(<<0, 120>>)>>

\* ---- C12
\* The entries of the event list at or before time t.
EventsBy(t) == {i \in 1..Len(tl.events) : tl.events[i][1] <= t}

\* The target in force at time t: that of the last entry at or before t.
ActiveTarget(t) == tl.events[Cardinality(EventsBy(t))][2]

\* C12: in every timeline state reached by reset and set_target, alpha_at(t)
\* is in [0, 1] at every time t, and for two times t <= t' between the same
\* two consecutive events alpha_at(t) <= alpha_at(t') when the target in
\* force is on and alpha_at(t) >= alpha_at(t') when it is off.
C12_AlphaBoundedMonotone ==
    /\ \A t \in TLTimes : alpha_at(tl, t) >= 0 /\ alpha_at(tl, t) <= ONE
    /\ \A t \in TLTimes, u \in TLTimes :
        (t <= u /\ EventsBy(t) # {} /\ EventsBy(t) = EventsBy(u)) =>
            /\ ActiveTarget(t) = 1 => alpha_at(tl, t) <= alpha_at(tl, u)
            /\ ActiveTarget(t) = 0 => alpha_at(tl, t) >= alpha_at(tl, u)

\* An on ramp after an off period: alpha rises strictly inside the last
\* segment and the unclamped sum of the segments is below zero before it.
C12_Witness ==
    /\ tl.events = <<(<<0, 0>>), (<<3, 1>>)>>
    /\ tl.alpha0 = ONE
    /\ alpha_at(tl, 3) = 0
    /\ alpha_at(tl, 4) = 0
    /\ alpha_at(tl, 5) = 1

\* ---- C13
\* The integration the claim describes: the running value is clamped to
\* [0, 1] after every segment.
RECURSIVE StepwiseLoop(_, _, _, _, _, _)
StepwiseLoop(events, i, t, alpha, last_t, last_target) ==
    IF i > Len(events) \/ events[i][1] > t
    THEN Max(0, Min(ONE, advance(alpha, last_target, t - last_t)))
    ELSE StepwiseLoop(events, i + 1, t,
                      Max(0, Min(ONE, advance(alpha, last_target, events[i][1] - last_t))),
                      events[i][1], events[i][2])

\* C13 as stated: alpha_at(t) is the segment-by-segment integration with the
\* running value clamped to [0, 1] after every segment; after an off period
\* longer than the ramp followed by an on period of one ramp, alpha_at is 1.
C13_ClampedAtEveryStep ==
    /\ \A t \in TLTimes :
        (tl.events # <<>> /\ t > tl.events[1][1]) =>
            alpha_at(tl, t) = StepwiseLoop(tl.events, 2, t, tl.alpha0,
                                           tl.events[1][1], tl.events[1][2])
    /\ \A t \in TLTimes :
        (/\ Len(tl.events) = 2
         /\ tl.events[1][2] = 0 /\ tl.events[2][2] = 1
         /\ tl.events[2][1] - tl.events[1][1] > RAMP_DURATION_MIN
         /\ t = tl.events[2][1] + RAMP_DURATION_MIN) => alpha_at(tl, t) = ONE

\* ---- C14
\* C14 as stated: after every tick of a running simulation, stage-completing
\* ticks included, the hole overlay on the bars was computed for the
\* simulation time the progress bars show.
C14_OverlayAtShownTime ==
    [][(last_op' = "tick" /\ app.animating /\ ~app.paused) =>
          app'.holes_min = ShownAt(app, now)]_vars

\* ---- C15
\* The per-run structures are fresh: no gap event, feed on, latches cleared.
FreshRun(s) ==
    /\ s.feed_events = <<>>
    /\ s.feed_on
    /\ ~s.notified_stage1 /\ ~s.notified_stage2 /\ ~s.notified_exit

\* C15 as stated: immediately after a start or a successful recalculation
\* the gap-event list is empty, the feed flag is on, the latches are cleared
\* and the stage index is 0, whatever happened in earlier runs.
C15_FreshAfterStartOrCalc ==
    last_op \in {"start", "start_calc", "calculer"} =>
        FreshRun(app) /\ app.seg_idx = 0

\* C15 amended: immediately after a start the gap-event list is empty, the
\* feed flag is on, the latches are cleared and the stage index is 0;
\* immediately after a successful recalculation the first three hold and no
\* run is going, and the stage index is 0 when the recalculation interrupted a
\* run (running or paused) and otherwise keeps its value: 3 after a run that
\* completed, until the next start sets it to 0.
C15_FreshAfterStart ==
    [][/\ last_op' \in {"start", "start_calc"} =>
            /\ FreshRun(app')
            /\ app'.seg_idx = 0
            /\ app'.animating /\ ~app'.paused
       /\ last_op' = "calculer" =>
            /\ FreshRun(app')
            /\ ~app'.animating /\ ~app'.paused
            /\ app'.seg_idx = IF app.animating \/ app.paused THEN 0 ELSE app.seg_idx
            /\ app'.seg_idx \in {0, 3}]_vars

\* A recalculation right after a run that completed with the feed
\* interruption still open: the stage index is still that of the finished run.
C15_Witness ==
    /\ last_op = "calculer"
    /\ app.seg_idx = 3
    /\ FreshRun(app)
    /\ Sum3(app.seg_durations) > 0

\* C16 -- For a valid frequency triple (each frequency inside the band
\* [5, 99] Hz) and every total, the three durations returned by
\* parts_reparties and by split_contributions add up to the total, and, the
\* weights K_i / f_i having a positive sum s, each duration is the total times
\* its weight over s.
ValidTriple(f) == \A i \in 1..3 : HZ_MIN <= f[i] /\ f[i] <= HZ_MAX

Weights(f, K) == [i \in 1..3 |-> Rat(K[i], f[i])]

C16_SplitSumsToTotal ==
    (c_op \in {"parts_reparties", "split_contributions"} /\ ValidTriple(c_in.f))
        => /\ RSum3(c_out) = RInt(c_in.total)
           /\ LET w == Weights(c_in.f, c_in.K)
                  s == RSum3(w)
              IN s[1] > 0 =>
                   \A i \in 1..3 : RMul(c_out[i], s) = RMul(RInt(c_in.total), w[i])

C16_Witness ==
    /\ c_op = "parts_reparties"
    /\ c_in.f = <<5, 10, 40>>
    /\ c_in.K = <<21, 23, 70>>
    /\ c_in.total = 2
    /\ c_out = <<<<56, 55>>, <<92, 165>>, <<14, 33>>>>

\* C17 -- Whenever the sum of the weights a split implementation divides by
\* is <= 0, that implementation returns (total/3, total/3, total/3): no
\* exception and no three zeros.  The weights of parts_reparties are taken at
\* the clamped frequencies, those of the two split_contributions at the
\* frequencies given.
SplitWeights(op, f, K) ==
    IF op = "parts_reparties" THEN Weights([i \in 1..3 |-> clamp_hz(f[i])], K)
    ELSE Weights(f, K)

C17_EqualSplitFallback ==
    (/\ c_op \in {"parts_reparties", "split_contributions", "split_contributions_fallback"}
     /\ \A i \in 1..3 : c_in.f[i] # 0
     /\ RSum3(SplitWeights(c_op, c_in.f, c_in.K))[1] <= 0)
        => c_out = EqualSplit(c_in.total)

\* C18 -- For every input on_calculer accepts (each frequency > 0, in Hz or
\* in the display unit), the plan computation divides each K_i by the
\* frequency clamped into [5, 99] Hz, never by the value given.
C18_ClampedDivisions ==
    c_op = "compute_simulation_plan"
        => c_out = [i \in 1..3 |-> Rat(c_in.K[i], clamp_hz(parse_hz(c_in.f[i])))]

\* C19 -- Every entry <= 0, one of the three frequencies or the entry
\* thickness, is rejected with an error; the calculation does not go on with
\* a default in its place.
C19_NonPositiveRejected ==
    (/\ c_op = "read_entries"
     /\ \/ \E i \in 1..3 : c_in.f[i] <= 0
        \/ c_in.h0 <= 0)
        => c_out.error

\* C20 -- The thickness computations never raise on a zero denominator: with
\* a zero frequency on belt 2 or belt 3 they return a complete result whose
\* thickness for that belt is infinite.
C20_ThicknessNeverRaises ==
    c_op \in {"thickness_and_accum_flow", "thickness_and_accum"}
        => /\ c_out.raised = "none"
           /\ c_in.f[2] = 0 => c_out.h2_cm = INF
           /\ c_in.f[3] = 0 => c_out.h3_cm = INF

\* C25 -- Within a run the global simulation time read by on_feed_stop and
\* on_feed_resume never decreases, so every closed GapEvent has
\* end_min >= start_min >= 0.
C25_ClosedGapsOrdered ==
    \A k \in 1..Len(app.feed_events) :
        app.feed_events[k].end_min # Unset
            => /\ app.feed_events[k].start_min >= 0
               /\ app.feed_events[k].end_min >= app.feed_events[k].start_min

\* C26 -- At most one GapEvent is open, an open event is the last of the
\* list, and the feed flag is off exactly when an open event exists.
OpenEvents(s) == {k \in 1..Len(s.feed_events) : s.feed_events[k].end_min = Unset}

OpenIsLast(s) ==
    /\ Cardinality(OpenEvents(s)) <= 1
    /\ \A k \in OpenEvents(s) : k = Len(s.feed_events)

C27_OneTickPending ==
    /\ Cardinality(app.timers) <= 1
    /\ (app.paused \/ ~app.animating) => app.timers = {}

C27_Witness ==
    /\ app.animating
    /\ app.paused
    /\ app.pause_t0 > app.seg_start
    /\ app.seg_idx = 1
    /\ app.timers = {}

\* C28 -- Once a run is started with a valid plan, if the wall clock keeps
\* advancing, due ticks keep firing and every pause is followed by a resume,
\* the run reaches the completed state (not animating, all three stages
\* done) unless a reset or a calculation ends it, whatever feed stops and
\* feed resumes occur.  The clock of the model stops at MaxTime: a run whose
\* next tick is pending beyond it is still on its way.
RunEnded == last_op \in {"reset", "calculer", "calculer_invalid", "calculer_badtotal"}

BeyondHorizon ==
    /\ now = MaxTime
    /\ app.animating
    /\ ~app.paused
    /\ app.timers # {}
    /\ \A d \in app.timers : d > MaxTime

C28_RunCompletes == app.animating ~> (CompletedNow \/ RunEnded \/ BeyondHorizon)

C28_Witness ==
    /\ CompletedNow
    /\ last_op = "tick"
    /\ now < MaxTime
    /\ app.feed_events # <<>>

\* C29 -- After any sequence of reset and set_target calls the event list of
\* a FeedTimeline is non-empty, its times are non-decreasing and consecutive
\* events have different targets; a set_target call whose time is earlier
\* than the last event's, or whose target is the last event's, leaves the
\* list unchanged.
LastEvent(s) == s.events[Len(s.events)]

C29_EventListWellFormed ==
    /\ tl.events # <<>>
    /\ \A i \in 1..(Len(tl.events) - 1) :
          /\ tl.events[i][1] <= tl.events[i + 1][1]
          /\ tl.events[i][2] # tl.events[i + 1][2]
    /\ \A t \in TLTimes, tg \in {0, 1} :
          (t < LastEvent(tl)[1] \/ tg = LastEvent(tl)[2])
              => tl_set_target(tl, tg, t).events = tl.events

C29_Witness ==
    /\ tl.events = <<(<<1, 0>>), (<<1, 1>>), (<<3, 0>>)>>
    /\ tl_set_target(tl, 1, 2) = tl

\* C21 -- The calibration stores on disk are created, modified or removed
\* only by an explicit save; apply, reset, load and calculate never change
\* what is stored.
C21_StoresChangeOnlyOnSave ==
    [][(cal'.disk # cal.disk \/ cal'.speed_disk # cal.speed_disk)
          => cal_op' \in {"save", "speed_save"}]_vars

\* C30 -- Once calibration parameters are applied, the current anchors stay
\* equal to the applied values until the next apply or reset; opening the
\* calibration window again does not change them.
C30_AppliedStaysCurrent ==
    cal.applied # <<>> => cal.cur = cal.applied

\* --------------------------------------- anchor fits and the total-time models
\* Main.EXPS: the records (T1, T2, T3 in centi-Hz, T in minutes) a dataset is
\* drawn from, in the order of the table: experiment 1 and the anchors A, D,
\* B and C.
EXPS ==
    <<(<<4000, 5000, 9000, 156>>),
      (<<9000, 9000, 9000, 57>>),
      (<<9000, 9000, 5000, 198>>),
      (<<5000, 9000, 9000, 99>>),
      (<<9000, 5000, 9000, 103>>)>>

RNeg(a) == <<0 - a[1], a[2]>>
RSub(a, b) == RAdd(a, RNeg(b))

\* a < b for two fractions with positive denominators, on whole parts and
\* remainders, so that no product of a numerator and a denominator is formed.
RECURSIVE RLt(_, _)
RLt(a, b) ==
    LET qa == a[1] \div a[2]
        qb == b[1] \div b[2]
        ra == a[1] % a[2]
        rb == b[1] % b[2]
    IN IF qa # qb THEN qa < qb
       ELSE IF rb = 0 THEN FALSE
       ELSE IF ra = 0 THEN TRUE
       ELSE RLt(<<b[2], rb>>, <<a[2], ra>>)

\* The records of exps a predicate selects, and the first of them (0: none),
\* as a generator or a for loop meets them.
Matching(exps, P(_)) == {k \in 1..Len(exps) : P(exps[k])}
First(S) == IF S = {} THEN 0 ELSE CHOOSE k \in S : \A j \in S : k <= j

\* sum(1 for v in arr if v == ref_ihm)
AtRef(e, ref_ihm) == Cardinality({j \in 1..3 : e[j] = ref_ihm})

\* abs(delta) <= 1e-12: a fraction whose denominator is below 2^31 is that
\* small only when it is zero.
DeltaNul(delta) == delta[1] = 0

\* d = T_ref - (K1 + K2 + K3) / ref_hz
anchor_offset_zero(T_ref, K, ref_hz) == <<0, 1>>
anchor_offset(T_ref, K, ref_hz) == RSub(T_ref, RDiv(RSum3(K), ref_hz))

\* Main.calibrate_anchor_from_ABCD.K_for_index, idx in 1..3 for 0..2
K_for_index(exps, ref_ihm, T_ref, idx) ==
    LET ref_hz == Rat(ref_ihm, CENTI)
        k == First(Matching(exps, LAMBDA e : /\ AtRef(e, ref_ihm) = 2
                                             /\ e[idx] # ref_ihm))
        f_var == Rat(exps[k][idx], CENTI)
        delta == RSub(RDiv(<<1, 1>>, f_var), RDiv(<<1, 1>>, ref_hz))
    IN IF k = 0 THEN Raised("RuntimeError: Essai d'ancrage manquant")
       ELSE IF DeltaNul(delta) THEN Raised("RuntimeError: Delta nul")
       ELSE [raised |-> "none", K |-> RDiv(RSub(RInt(exps[k][4]), T_ref), delta)]

\* Main.calibrate_anchor_from_ABCD: (K1, K2, K3, d), or what it raises.
calibrate_anchor_from_ABCD(exps, ref_ihm) ==
    LET ref_hz == Rat(ref_ihm, CENTI)
        r == First(Matching(exps, LAMBDA e : AtRef(e, ref_ihm) = 3))
        T_ref == RInt(exps[r][4])
        k1 == K_for_index(exps, ref_ihm, T_ref, 1)
        k2 == K_for_index(exps, ref_ihm, T_ref, 2)
        k3 == K_for_index(exps, ref_ihm, T_ref, 3)
    IN IF r = 0 THEN Raised("StopIteration")
       ELSE IF k1.raised # "none" THEN k1
       ELSE IF k2.raised # "none" THEN k2
       ELSE IF k3.raised # "none" THEN k3
       ELSE [raised |-> "none",
             K |-> <<k1.K, k2.K, k3.K>>,
             B |-> anchor_offset(T_ref, <<k1.K, k2.K, k3.K>>, ref_hz)]

\* calibration.DEFAULT_ANCHOR: K1 = 4725.0, K2 = 5175.0, K3 = 15862.5 and
\* B = -229.25
DEFAULT_ANCHOR ==
    [K |-> <<(<<4725, 1>>), (<<5175, 1>>), (<<31725, 2>>)>>, B |-> <<0 - 917, 4>>]

\* calibration.total_time_minutes(model="anchor"), frequencies in Hz as
\* fractions: B + K1 / f1 + K2 / f2 + K3 / f3
total_time_minutes(f, anch) ==
    RAdd(RAdd(RAdd(anch.B, RDiv(anch.K[1], f[1])), RDiv(anch.K[2], f[2])),
         RDiv(anch.K[3], f[3]))

\* calc_models.total_minutes_anchor with anch for get_current_anchor()
total_minutes_anchor(f, anch) ==
    total_time_minutes([i \in 1..3 |-> RInt(clamp_hz(f[i]))], anch)

\* The datasets: every selection of records of EXPS, kept in table order.
Nth(S, i) == CHOOSE k \in S : Cardinality({j \in S : j < k}) = i - 1
Datasets == {[i \in 1..Cardinality(S) |-> EXPS[Nth(S, i)]] : S \in SUBSET (1..Len(EXPS))}
\* ref_ihm: the default of calibrate_anchor_from_ABCD, and the slow setting.
RefIhms == {9000, 5000}
\* The reference fields of the "Ancrage simple" tab: Hz, centi-Hz, values
\* outside the band, and times in minutes.
FitFreqs == {<<60, 60, 60>>, <<3, 120, 6000>>, <<5, 99, 40>>}
FitTimes == {<<50, 50, 50>>, <<1, 2, 3>>}

AsAnchor(p) == [K |-> <<RInt(p[1]), RInt(p[2]), RInt(p[3])>>, B |-> RInt(p[4])]
RefTriple(ref_ihm) == [i \in 1..3 |-> Rat(ref_ihm, CENTI)]

FInit ==
    /\ AppIdle
    /\ HIdle
    /\ tl = TLNone
    /\ show_holes = FALSE
    /\ KIdle
    /\ c_in \in [exps : Datasets, ref_ihm : RefIhms, f : FitFreqs, t : FitTimes,
                 total : Totals]
    /\ c_op = "none"
    /\ c_out = <<>>

\* calibrate_anchor_from_ABCD(exps, ref_ihm), and the coefficients it returns
\* evaluated at the all-reference triple.
FCalibrate ==
    /\ c_op = "none"
    /\ LET r == calibrate_anchor_from_ABCD(c_in.exps, c_in.ref_ihm)
       IN Apply("calibrate_anchor_from_ABCD",
                [fit |-> r,
                 at_ref |-> IF r.raised = "none"
                            THEN total_time_minutes(RefTriple(c_in.ref_ihm), r)
                            ELSE <<0, 1>>])

\* fit_anchor_from_direct on the reference fields, and total_minutes_anchor
\* at the reference frequencies once these coefficients are the current ones.
FDirect ==
    /\ c_op = "none"
    /\ LET p == fit_anchor_from_direct(c_in.f, c_in.t, c_in.total)
       IN Apply("fit_anchor_from_direct",
                [fit |-> p, at_ref |-> total_minutes_anchor(c_in.f, AsAnchor(p))])

\* The built-in anchors evaluated at the triple of ref_ihm.
FBuiltin ==
    /\ c_op = "none"
    /\ Apply("DEFAULT_ANCHOR",
             [fit |-> DEFAULT_ANCHOR,
              at_ref |-> total_time_minutes(RefTriple(c_in.ref_ihm), DEFAULT_ANCHOR)])

FNext ==
    \/ FCalibrate
    \/ FDirect
    \/ FBuiltin

SpecFit == FInit /\ [][FNext]_vars

\* C22 -- The direct anchor fit fails with the named "missing anchor
\* experiment" error whenever the all-reference record or one of the three
\* single-belt records is absent, with the named "degenerate delta" error
\* when 1/f_i equals 1/f_ref, and never with another error.
RequiredMissing(exps, ref_ihm) ==
    \/ Matching(exps, LAMBDA e : AtRef(e, ref_ihm) = 3) = {}
    \/ \E idx \in 1..3 :
          Matching(exps, LAMBDA e : AtRef(e, ref_ihm) = 2 /\ e[idx] # ref_ihm) = {}

C22_NamedFailures ==
    c_op = "calibrate_anchor_from_ABCD" =>
        /\ RequiredMissing(c_in.exps, c_in.ref_ihm)
              => c_out.fit.raised = "RuntimeError: Essai d'ancrage manquant"
        /\ c_out.fit.raised \in {"none", "RuntimeError: Essai d'ancrage manquant",
                                 "RuntimeError: Delta nul"}

\* C24 -- The anchor coefficients, the built-in ones and those a fit
\* constructs, evaluated with T = B + K1/f1 + K2/f2 + K3/f3 at the
\* all-reference triple give exactly the observed time of the reference
\* experiment.
C24_ReferenceReproduced ==
    /\ (c_op = "calibrate_anchor_from_ABCD" /\ c_out.fit.raised = "none")
          => c_out.at_ref =
                RInt(c_in.exps[First(Matching(c_in.exps,
                         LAMBDA e : AtRef(e, c_in.ref_ihm) = 3))][4])
    /\ c_op = "fit_anchor_from_direct" => c_out.at_ref = RInt(c_in.total)
    /\ (c_op = "DEFAULT_ANCHOR" /\ c_in.ref_ihm = EXPS[2][1])
          => c_out.at_ref = RInt(EXPS[2][4])

C24_Witness ==
    /\ c_op = "calibrate_anchor_from_ABCD"
    /\ c_out.fit.raised = "none"
    /\ c_out.fit.K = DEFAULT_ANCHOR.K
    /\ c_out.fit.B = DEFAULT_ANCHOR.B
    /\ c_out.at_ref = <<57, 1>>

\* calc_models: the coefficients of the "1/f + synergy" model, K1_SYN =
\* 5572.48229, K2_SYN = 6972.24662, K3_SYN = 16679.5377, S_SYN = -11202288.2
\* and B_SYN = -246.382563, to the nearest whole unit, which keeps the
\* numerators of a total over f1 * f2 * f3 within 32 bits.
K1_SYN == 5572
K2_SYN == 6972
K3_SYN == 16680
S_SYN == 0 - 11202288
B_SYN == 0 - 246

\* calc_models.total_minutes_synergy:
\* B + K1 / f1 + K2 / f2 + K3 / f3 + S / (f1 * f2 * f3) on clamped frequencies
total_minutes_synergy(f) ==
    LET g == [i \in 1..3 |-> clamp_hz(f[i])]
    IN RAdd(RAdd(RAdd(RAdd(RInt(B_SYN), Rat(K1_SYN, g[1])), Rat(K2_SYN, g[2])),
                 Rat(K3_SYN, g[3])),
            Rat(S_SYN, g[1] * g[2] * g[3]))

\* The frequencies (Hz) the two models are compared on: both ends of the
\* band, steps of 1 Hz as is_monotone_decreasing_in_each_f takes them, and
\* the middle of the band.
BandFreqs == {5, 6, 40, 41, 50, 98, 99}

\* The total the named model gives.
ModelTotal(model, f) ==
    IF model = "total_minutes_synergy" THEN total_minutes_synergy(f)
    ELSE total_minutes_anchor(f, DEFAULT_ANCHOR)

MInit ==
    /\ AppIdle
    /\ HIdle
    /\ tl = TLNone
    /\ show_holes = FALSE
    /\ KIdle
    /\ c_in \in [f : BandFreqs \X BandFreqs \X BandFreqs]
    /\ c_op = "none"
    /\ c_out = <<>>

MSynergy ==
    /\ c_op = "none"
    /\ Apply("total_minutes_synergy", total_minutes_synergy(c_in.f))

MAnchor ==
    /\ c_op = "none"
    /\ Apply("total_minutes_anchor", total_minutes_anchor(c_in.f, DEFAULT_ANCHOR))

MNext ==
    \/ MSynergy
    \/ MAnchor

SpecModels == MInit /\ [][MNext]_vars

\* C23 -- For the synergy model and the anchor model with the built-in
\* coefficients, over the band [5, 99] Hz, increasing any one frequency while
\* the other two are held strictly decreases the predicted total time.
C23_StrictlyDecreasing ==
    c_op \in {"total_minutes_synergy", "total_minutes_anchor"} =>
        \A i \in 1..3, g \in BandFreqs :
            g > c_in.f[i] => RLt(ModelTotal(c_op, [c_in.f EXCEPT ![i] = g]), c_out)

====
